---- MODULE Spec2Model ----
(***************************************************************************)
(* Terminal session multiplexer: src-tauri/src/terminal.rs.                *)
(*                                                                         *)
(* TerminalManager keeps a mutex-guarded map id -> TerminalInstance, a     *)
(* process-wide atomic id counter, and one reader thread per session that  *)
(* forwards the pty's output to the event sink.  Manager operations run on *)
(* caller threads; reader threads and child processes run on their own.    *)
(***************************************************************************)
EXTENDS Integers, Sequences, FiniteSets, TLC

(* ------------------------------ sizes -------------------------------- *)

\* u32::MAX scaled down, so that the exhaustion of the id space is reachable.
U32_MAX == 4
\* Caller threads that may run Manager operations at the same time.
NumThreads == 3
\* Pseudo-terminals the system can have open at once (openpty fails beyond).
MaxPty == 2
\* Chunks of output one child produces.
MaxChunks == 1
\* Input chunks the pty holds before a write blocks.
InCap == 1
\* READ_BUFFER_SIZE scaled down: the bytes one read returns at most.
READ_BUFFER_SIZE == 2
\* Bytes the child writes to the stream that is followed byte by byte.
MaxBytes == 5
\* Entries a directory holds at most.
MaxEntries == 4

MAX_TERMINAL_ID == U32_MAX - 1

Ids == 0..U32_MAX
Threads == 1..NumThreads
Slots == 1..MaxPty

\* Option::None of the cwd and name arguments.
NoneArg == "None"
\* (cwd, name) arguments of createSession: both absent, both given.
CreateArgs == {<<NoneArg, NoneArg>>, <<"x", "n">>}
NewCwds == {"y"}
Times == {"t1"}
SizeArgs == {<<100, 30>>}

VARIABLES
    NEXT_TERMINAL_ID,   \* the static AtomicU32
    terminals,          \* TerminalManager.terminals: id -> instance or NoTerminal
    lock,               \* holder of the terminals mutex, 0 when free
    pc,                 \* per caller thread: where it is in its operation
    fr,                 \* per caller thread: the locals of its operation
    sess,               \* per pty slot: device, child process and reader thread
    issued,             \* history: ids fetch_add has handed out
    lastRet,            \* history: id returned by the latest successful create
    retInfo,            \* history: metadata create returned, per id, until closed
    closeOk,            \* history: ids for which close_terminal returned Ok
    closedSent,         \* history: ids a terminal-closed notification was sent for
    wrapped,            \* history: the counter has wrapped around
    nCreated,           \* history: createSession calls that returned Ok
    cwdSet,             \* history: cwd of the latest successful update, per id
    stream,             \* one reader's data path, byte by byte
    dir,                \* the directory read_directory was last called on, and its result
    ev                  \* the return or notification of the step just taken

vars == <<NEXT_TERMINAL_ID, terminals, lock, pc, fr, sess,
          issued, lastRet, retInfo, closeOk, closedSent, wrapped,
          nCreated, cwdSet, stream, dir, ev>>

hist == <<issued, lastRet, retInfo, closeOk, closedSent, wrapped, nCreated, cwdSet>>

\* The state outside the terminal sessions.
aside == <<stream, dir>>

\* What the session-level steps leave alone besides the registry and devices.
rest == <<hist, aside>>

(* ------------------------------ values ------------------------------- *)

NoTerminal == [none |-> TRUE]
NoInfo == [id |-> 0, name |-> "", cwd |-> "", created_at |-> ""]

TerminalInfo(id, name, cwd, created_at) ==
    [id |-> id, name |-> name, cwd |-> cwd, created_at |-> created_at]

TerminalInstance(info, slot) == [info |-> info, pty |-> slot]

IdleFrame == [cwd |-> "", name |-> "", slot |-> 0, id |-> 0, info |-> NoInfo]

FreeSlot ==
    [pty |-> "free", child |-> "none", out |-> <<>>, produced |-> 0,
     inq |-> 0, rpc |-> "none", rid |-> 0, rdata |-> 0]

NoEvent == [kind |-> "none"]
\* What an operation returned: Ok(..) or the error.
Ret(op, id, res) == [kind |-> "ret", op |-> op, id |-> id, res |-> res]
\* Ok(()) of a write or resize, with the device the call acted on.
RetDev(op, id, slot) ==
    [kind |-> "ret", op |-> op, id |-> id, res |-> "Ok", dev |-> slot]
RetInfo(info) ==
    [kind |-> "ret", op |-> "create", id |-> info.id, res |-> "Ok", info |-> info]
RetList(infos) ==
    [kind |-> "ret", op |-> "list", id |-> 0, res |-> "Ok", infos |-> infos]
Emit(name, id, data) == [kind |-> "emit", name |-> name, id |-> id, data |-> data]

\* The data path of a reader before its child has written anything: the bytes
\* the child wrote, those the pty still holds, the bytes of the read that has
\* returned, and the concatenation of the data emitted so far.
NoStream == [produced |-> <<>>, unread |-> <<>>, buf |-> <<>>, text |-> <<>>]

\* Before any read_directory call.
NoDir == [read |-> <<>>, result |-> <<>>]

Registered == {i \in Ids : terminals[i] # NoTerminal}

\* The ids callers pass to the operations: the ids handed out so far and one
\* that no session has.
IdArgs == issued \cup {0}

(* ----------------------------- Init ---------------------------------- *)

Init ==
    /\ NEXT_TERMINAL_ID = 1
    /\ terminals = [i \in Ids |-> NoTerminal]
    /\ lock = 0
    /\ pc = [t \in Threads |-> "idle"]
    /\ fr = [t \in Threads |-> IdleFrame]
    /\ sess = [s \in Slots |-> FreeSlot]
    /\ issued = {}
    /\ lastRet = 0
    /\ retInfo = [i \in Ids |-> NoInfo]
    /\ closeOk = {}
    /\ closedSent = {}
    /\ wrapped = FALSE
    /\ nCreated = 0
    /\ cwdSet = [i \in Ids |-> ""]
    /\ stream = NoStream
    /\ dir = NoDir
    /\ ev = NoEvent

(* ----------------------------- helpers ------------------------------- *)

\* Slots whose handles a spawn_terminal call in progress still owns.
HeldSlots(pcs, frs) ==
    {frs[t].slot : t \in {u \in Threads : pcs[u] \in {"alloc", "insert", "spawn"}}}

\* A slot nothing refers to any more: the PtyPair was dropped and the reader
\* thread has ended (or was never started).
Reclaim(se, held) ==
    [s \in Slots |->
        IF se[s].pty = "closed" /\ se[s].rpc \in {"none", "done"} /\ s \notin held
        THEN FreeSlot ELSE se[s]]

\* Mutant: another owner keeps the PtyPair alive, the device stays open.
DropPty_Leak(se, s) == se
\* drop(PtyPair): the device is closed; the child can no longer be reached
\* through it, and its pending input is gone with the device.
DropPty(se, s) ==
    [se EXCEPT ![s].pty = "closed", ![s].child = "exited", ![s].inq = 0]

\* openpty takes the lowest free slot.
LowestFree == CHOOSE s \in Slots : sess[s].pty = "free" /\
                  \A r \in Slots : sess[r].pty = "free" => s <= r

\* format!("Terminal {}", id)
DefaultName(id) == "Terminal " \o ToString(id)

\* AtomicU32::fetch_add wraps around on overflow.
WrappingAdd(n) == (n + 1) % (U32_MAX + 1)

\* Mutant: the check lets the maximum itself through.
IdOverflow_Strict(current_id) == current_id > MAX_TERMINAL_ID
\* Line 59: the exhaustion check on the loaded counter value.
IdOverflow(current_id) == current_id >= MAX_TERMINAL_ID

\* Mutant: sessions whose reader has ended are filtered out of the listing.
ListResult_Alive ==
    {terminals[i].info : i \in {j \in Registered : sess[terminals[j].pty].rpc # "done"}}
\* terminals.values().map(|t| t.info.clone()).collect()
ListResult == {terminals[i].info : i \in Registered}

Idle(t) ==
    /\ pc' = [pc EXCEPT ![t] = "idle"]
    /\ fr' = [fr EXCEPT ![t] = IdleFrame]

(* ------------------------- spawn_terminal ---------------------------- *)

\* Lines 57-61: load the counter and refuse when the id space is exhausted.
\* (The model starts no further creation once the counter has wrapped.)
SpawnLoad(t, cwd, name) ==
    /\ pc[t] = "idle"
    /\ ~wrapped
    /\ UNCHANGED <<NEXT_TERMINAL_ID, terminals, lock, sess, rest>>
    /\ IF IdOverflow(NEXT_TERMINAL_ID)
       THEN /\ ev' = Ret("create", 0, "IdOverflow")
            /\ UNCHANGED <<pc, fr>>
       ELSE /\ pc' = [pc EXCEPT ![t] = "open"]
            /\ fr' = [fr EXCEPT ![t] = [IdleFrame EXCEPT !.cwd = cwd, !.name = name]]
            /\ ev' = NoEvent

\* Lines 74-78: cwd.unwrap_or_else(home directory of the environment).
WorkingDir(cwd) == IF cwd = NoneArg THEN "home" ELSE cwd

\* Lines 63-91: open the pty, resolve the working directory, spawn the shell
\* on the slave side.
SpawnOpen(t) ==
    /\ pc[t] = "open"
    /\ UNCHANGED <<NEXT_TERMINAL_ID, terminals, lock, rest>>
    /\ \/ /\ ev' = Ret("create", 0, "OpenPtyFailed")
          /\ Idle(t)
          /\ UNCHANGED sess
       \/ /\ \E s \in Slots : sess[s].pty = "free"
          /\ ev' = Ret("create", 0, "SpawnFailed")
          /\ Idle(t)
          /\ UNCHANGED sess
       \/ /\ \E s \in Slots : sess[s].pty = "free"
          /\ sess' = [sess EXCEPT ![LowestFree] =
                         [FreeSlot EXCEPT !.pty = "open", !.child = "running"]]
          /\ pc' = [pc EXCEPT ![t] = "alloc"]
          /\ fr' = [fr EXCEPT ![t].cwd = WorkingDir(@), ![t].slot = LowestFree]
          /\ ev' = NoEvent

\* The id the counter hands out, and the value it is left with.
AllocId == NEXT_TERMINAL_ID
\* Mutant: the counter is read but not advanced.
AllocNext_Stuck == NEXT_TERMINAL_ID
AllocNext == WrappingAdd(NEXT_TERMINAL_ID)
\* Mutant: a create that fails after fetch_add gives its id back.
SpawnAlloc_Rollback(t) ==
    /\ pc[t] = "alloc"
    /\ UNCHANGED <<terminals, lock, lastRet, retInfo, closeOk, closedSent,
                   nCreated, cwdSet, aside>>
    /\ \/ \E ts \in Times :
            /\ NEXT_TERMINAL_ID' = AllocNext
            /\ issued' = issued \cup {AllocId}
            /\ wrapped' = (wrapped \/ AllocNext < AllocId)
            /\ fr' = [fr EXCEPT ![t].id = AllocId,
                         ![t].info = TerminalInfo(AllocId,
                             IF fr[t].name = NoneArg THEN DefaultName(AllocId)
                                                     ELSE fr[t].name,
                             fr[t].cwd, ts)]
            /\ pc' = [pc EXCEPT ![t] = "insert"]
            /\ UNCHANGED sess
            /\ ev' = NoEvent
       \/ \E e \in {"WriterFailed", "ReaderFailed"} :
            /\ UNCHANGED <<NEXT_TERMINAL_ID, issued, wrapped>>
            /\ Idle(t)
            /\ sess' = Reclaim(DropPty(sess, fr[t].slot), HeldSlots(pc', fr'))
            /\ ev' = Ret("create", 0, e)
\* Lines 93-111: fetch_add, build the metadata, take the writer and clone the
\* reader; either handle may fail, which drops the pty pair and the child.
SpawnAlloc(t) ==
    /\ pc[t] = "alloc"
    /\ NEXT_TERMINAL_ID' = AllocNext
    /\ issued' = issued \cup {AllocId}
    /\ wrapped' = (wrapped \/ AllocNext < AllocId)
    /\ UNCHANGED <<terminals, lock, lastRet, retInfo, closeOk, closedSent,
                   nCreated, cwdSet, aside>>
    /\ \/ \E ts \in Times :
            /\ fr' = [fr EXCEPT ![t].id = AllocId,
                         ![t].info = TerminalInfo(AllocId,
                             IF fr[t].name = NoneArg THEN DefaultName(AllocId)
                                                     ELSE fr[t].name,
                             fr[t].cwd, ts)]
            /\ pc' = [pc EXCEPT ![t] = "insert"]
            /\ UNCHANGED sess
            /\ ev' = NoEvent
       \/ \E e \in {"WriterFailed", "ReaderFailed"} :
            /\ Idle(t)
            /\ sess' = Reclaim(DropPty(sess, fr[t].slot), HeldSlots(pc', fr'))
            /\ ev' = Ret("create", 0, e)

\* Mutant: the map is written back from a stale empty copy, losing the
\* entries inserted meanwhile.
Inserted_Replacing(id, instance) ==
    [i \in Ids |-> IF i = id THEN instance ELSE NoTerminal]
\* Mutant: the instance is built but not put into the map.
Inserted_Skipped(id, instance) == terminals
\* The map after insert(id, instance).
Inserted(id, instance) == [terminals EXCEPT ![id] = instance]

\* Lines 113-119: build the instance and insert it under the lock; an entry
\* already stored under the id is replaced and dropped.
SpawnInsert(t) ==
    /\ pc[t] = "insert"
    /\ lock = 0
    /\ terminals' = Inserted(fr[t].id, TerminalInstance(fr[t].info, fr[t].slot))
    /\ pc' = [pc EXCEPT ![t] = "spawn"]
    /\ sess' = IF terminals[fr[t].id] = NoTerminal THEN sess
               ELSE Reclaim(DropPty(sess, terminals[fr[t].id].pty), HeldSlots(pc', fr))
    /\ ev' = NoEvent
    /\ UNCHANGED <<NEXT_TERMINAL_ID, lock, fr, rest>>

\* Lines 121-155: start the reader thread bound to the id, return the metadata.
SpawnReader(t) ==
    /\ pc[t] = "spawn"
    /\ sess' = [sess EXCEPT ![fr[t].slot].rpc = "read", ![fr[t].slot].rid = fr[t].id]
    /\ Idle(t)
    /\ lastRet' = fr[t].id
    /\ retInfo' = [retInfo EXCEPT ![fr[t].id] = fr[t].info]
    /\ cwdSet' = [cwdSet EXCEPT ![fr[t].id] = ""]
    /\ nCreated' = nCreated + 1
    /\ ev' = RetInfo(fr[t].info)
    /\ UNCHANGED <<NEXT_TERMINAL_ID, terminals, lock, issued, closeOk, closedSent,
                   wrapped, aside>>

(* ----------------------- the other operations ------------------------ *)

\* Lines 158-162: take the lock and look the session up.
WriteLookup(t, id) ==
    /\ pc[t] = "idle"
    /\ lock = 0
    /\ UNCHANGED <<NEXT_TERMINAL_ID, terminals, sess, rest>>
    /\ IF terminals[id] = NoTerminal
       THEN /\ ev' = Ret("write", id, "NotFound")
            /\ UNCHANGED <<lock, pc, fr>>
       ELSE /\ lock' = t
            /\ pc' = [pc EXCEPT ![t] = "write"]
            /\ fr' = [fr EXCEPT ![t] = [IdleFrame EXCEPT !.id = id,
                                           !.slot = terminals[id].pty]]
            /\ ev' = NoEvent

\* Lines 164-174: write_all and flush on the writer, still under the lock;
\* the write waits while the pty's input is full.
WriteFlush(t) ==
    /\ pc[t] = "write"
    /\ lock = t
    /\ lock' = 0
    /\ Idle(t)
    /\ UNCHANGED <<NEXT_TERMINAL_ID, terminals, rest>>
    /\ IF sess[fr[t].slot].child = "exited"
       THEN /\ ev' = Ret("write", fr[t].id, "IoError")
            /\ UNCHANGED sess
       ELSE /\ sess[fr[t].slot].inq < InCap
            /\ sess' = [sess EXCEPT ![fr[t].slot].inq = @ + 1]
            /\ ev' = RetDev("write", fr[t].id, fr[t].slot)

\* Lines 177-195: the geometry is set on the device of the looked-up session;
\* nothing in the program reads it back, so it is not kept.
Resize(t, id, size) ==
    /\ pc[t] = "idle"
    /\ lock = 0
    /\ UNCHANGED <<NEXT_TERMINAL_ID, terminals, lock, pc, fr, rest>>
    /\ IF terminals[id] = NoTerminal
       THEN /\ ev' = Ret("resize", id, "NotFound")
            /\ UNCHANGED sess
       ELSE /\ ev' \in {RetDev("resize", id, terminals[id].pty),
                        Ret("resize", id, "ResizeFailed")}
            /\ UNCHANGED sess

\* Mutant: close_terminal finds the entry but leaves it in the map.
Removed_Kept(id) == terminals
\* The map after remove(&id).
Removed(id) == [terminals EXCEPT ![id] = NoTerminal]
\* Mutant: close_terminal removes the entry without taking the lock.
Close_Unlocked(t, id) ==
    /\ pc[t] = "idle"
    /\ UNCHANGED <<NEXT_TERMINAL_ID, lock, pc, fr, issued, lastRet, closedSent,
                   wrapped, nCreated, aside>>
    /\ IF terminals[id] = NoTerminal
       THEN /\ ev' = Ret("close", id, "NotFound")
            /\ UNCHANGED <<terminals, sess, retInfo, closeOk, cwdSet>>
       ELSE /\ terminals' = Removed(id)
            /\ sess' = Reclaim(DropPty(sess, terminals[id].pty), HeldSlots(pc, fr))
            /\ retInfo' = [retInfo EXCEPT ![id] = NoInfo]
            /\ cwdSet' = [cwdSet EXCEPT ![id] = ""]
            /\ closeOk' = closeOk \cup {id}
            /\ ev' = Ret("close", id, "Ok")
\* Lines 197-205: remove the entry; the removed instance, and with it the
\* PtyPair and the writer, is dropped.
Close(t, id) ==
    /\ pc[t] = "idle"
    /\ lock = 0
    /\ UNCHANGED <<NEXT_TERMINAL_ID, lock, pc, fr, issued, lastRet, closedSent,
                   wrapped, nCreated, aside>>
    /\ IF terminals[id] = NoTerminal
       THEN /\ ev' = Ret("close", id, "NotFound")
            /\ UNCHANGED <<terminals, sess, retInfo, closeOk, cwdSet>>
       ELSE /\ terminals' = Removed(id)
            /\ sess' = Reclaim(DropPty(sess, terminals[id].pty), HeldSlots(pc, fr))
            /\ retInfo' = [retInfo EXCEPT ![id] = NoInfo]
            /\ cwdSet' = [cwdSet EXCEPT ![id] = ""]
            /\ closeOk' = closeOk \cup {id}
            /\ ev' = Ret("close", id, "Ok")

\* Lines 207-210.
List(t) ==
    /\ pc[t] = "idle"
    /\ lock = 0
    /\ ev' = RetList(ListResult)
    /\ UNCHANGED <<NEXT_TERMINAL_ID, terminals, lock, pc, fr, sess, rest>>
\* Mutant: the update also overwrites the name.
WithCwd_Renaming(instance, cwd) == [instance EXCEPT !.info.cwd = cwd, !.info.name = cwd]
\* The instance after instance.info.cwd = cwd.
WithCwd(instance, cwd) == [instance EXCEPT !.info.cwd = cwd]

\* Lines 212-219.
UpdateCwd(t, id, cwd) ==
    /\ pc[t] = "idle"
    /\ lock = 0
    /\ UNCHANGED <<NEXT_TERMINAL_ID, lock, pc, fr, sess, issued, lastRet, retInfo,
                   closeOk, closedSent, wrapped, nCreated, aside>>
    /\ IF terminals[id] = NoTerminal
       THEN /\ ev' = Ret("update_cwd", id, "NotFound")
            /\ UNCHANGED <<terminals, cwdSet>>
       ELSE /\ terminals' = [terminals EXCEPT ![id] = WithCwd(@, cwd)]
            /\ cwdSet' = [cwdSet EXCEPT ![id] = cwd]
            /\ ev' = Ret("update_cwd", id, "Ok")

(* --------------------------- reader thread --------------------------- *)
\* Mutant: the reader takes the registry lock around its read.
ReadData_Locked(s) ==
    /\ lock = 0
    /\ sess[s].rpc = "read"
    /\ sess[s].out # <<>>
    /\ sess' = [sess EXCEPT ![s].rpc = "output", ![s].rdata = Head(sess[s].out),
                            ![s].out = Tail(sess[s].out)]
    /\ ev' = NoEvent
    /\ UNCHANGED <<NEXT_TERMINAL_ID, terminals, lock, pc, fr, rest>>
\* Line 127, Ok(n): the read returns the oldest chunk the pty holds.
ReadData(s) ==
    /\ sess[s].rpc = "read"
    /\ sess[s].out # <<>>
    /\ sess' = [sess EXCEPT ![s].rpc = "output", ![s].rdata = Head(sess[s].out),
                            ![s].out = Tail(sess[s].out)]
    /\ ev' = NoEvent
    /\ UNCHANGED <<NEXT_TERMINAL_ID, terminals, lock, pc, fr, rest>>

\* Whether the device reports end-of-stream: nothing is left to read and the
\* PtyPair was dropped (lines 199-200) or the child has exited.
StreamEnded(s) ==
    /\ sess[s].out = <<>>
    /\ sess[s].pty = "closed" \/ sess[s].child = "exited"

\* Line 127, Ok(0).
ReadEof(s) ==
    /\ sess[s].rpc = "read"
    /\ StreamEnded(s)
    /\ sess' = [sess EXCEPT ![s].rpc = "closed"]
    /\ ev' = NoEvent
    /\ UNCHANGED <<NEXT_TERMINAL_ID, terminals, lock, pc, fr, rest>>
\* Mutant: an I/O error in one reader ends the read of every reader.
ReadErr_Poison(s) ==
    /\ sess[s].rpc = "read"
    /\ sess' = [r \in Slots |->
                   IF sess[r].rpc = "read" THEN [sess[r] EXCEPT !.rpc = "closed"]
                   ELSE sess[r]]
    /\ ev' = NoEvent
    /\ UNCHANGED <<NEXT_TERMINAL_ID, terminals, lock, pc, fr, rest>>
\* Line 127, Err(e): an I/O error may end any read.
ReadErr(s) ==
    /\ sess[s].rpc = "read"
    /\ sess' = [sess EXCEPT ![s].rpc = "closed"]
    /\ ev' = NoEvent
    /\ UNCHANGED <<NEXT_TERMINAL_ID, terminals, lock, pc, fr, rest>>

\* Where the reader goes after emitting terminal-output: back to the read.
AfterOutput == "read"
\* Mutant: the closed branch falls through and notifies again.
AfterClosed_Again == "closed"
\* Mutant: the closed branch does not break and the loop reads on.
AfterClosed_Loop == "read"
\* Where the reader goes after emitting terminal-closed: out of the loop.
AfterClosed == "done"

\* Lines 133-142: emit terminal-output and loop.
EmitOutput(s) ==
    /\ sess[s].rpc = "output"
    /\ sess' = [sess EXCEPT ![s].rpc = AfterOutput, ![s].rdata = 0]
    /\ ev' = Emit("terminal-output", sess[s].rid, sess[s].rdata)
    /\ UNCHANGED <<NEXT_TERMINAL_ID, terminals, lock, pc, fr, rest>>
\* Mutant: the reader thread removes its session from the map when it ends.
EmitClosed_Removing(s) ==
    /\ sess[s].rpc = "closed"
    /\ sess' = Reclaim([sess EXCEPT ![s].rpc = AfterClosed], HeldSlots(pc, fr))
    /\ closedSent' = closedSent \cup {sess[s].rid}
    /\ terminals' = Removed(sess[s].rid)
    /\ ev' = Emit("terminal-closed", sess[s].rid, 0)
    /\ UNCHANGED <<NEXT_TERMINAL_ID, lock, pc, fr,
                   issued, lastRet, retInfo, closeOk, wrapped, nCreated, cwdSet, aside>>
\* Lines 128-132 and 143-152: emit terminal-closed, break, drop the child.
EmitClosed(s) ==
    /\ sess[s].rpc = "closed"
    /\ sess' = Reclaim([sess EXCEPT ![s].rpc = AfterClosed], HeldSlots(pc, fr))
    /\ closedSent' = closedSent \cup {sess[s].rid}
    /\ ev' = Emit("terminal-closed", sess[s].rid, 0)
    /\ UNCHANGED <<NEXT_TERMINAL_ID, terminals, lock, pc, fr,
                   issued, lastRet, retInfo, closeOk, wrapped, nCreated, cwdSet, aside>>

(* --------------------------- child process --------------------------- *)

\* The shell writes a chunk of output to the slave side.
ChildOutput(s) ==
    /\ sess[s].pty = "open"
    /\ sess[s].child = "running"
    /\ sess[s].produced < MaxChunks
    /\ sess' = [sess EXCEPT ![s].produced = @ + 1,
                            ![s].out = Append(@, sess[s].produced + 1)]
    /\ ev' = NoEvent
    /\ UNCHANGED <<NEXT_TERMINAL_ID, terminals, lock, pc, fr, rest>>

\* The shell reads its pending input.
ChildConsume(s) ==
    /\ sess[s].child = "running"
    /\ sess[s].inq > 0
    /\ sess' = [sess EXCEPT ![s].inq = @ - 1]
    /\ ev' = NoEvent
    /\ UNCHANGED <<NEXT_TERMINAL_ID, terminals, lock, pc, fr, rest>>

\* The shell exits on its own.
ChildExit(s) ==
    /\ sess[s].pty = "open"
    /\ sess[s].child = "running"
    /\ sess' = [sess EXCEPT ![s].child = "exited", ![s].inq = 0]
    /\ ev' = NoEvent
    /\ UNCHANGED <<NEXT_TERMINAL_ID, terminals, lock, pc, fr, rest>>

(* ------------------------ one reader's data path ---------------------- *)

\* The characters the child writes, as their UTF-8 bytes: a one-byte
\* character, and a two-byte character with lead byte L and continuation C.
Chars == {<<"a">>, <<"L", "C">>}

\* U+FFFD, what from_utf8_lossy puts in the place of an invalid sequence.
Replacement == <<"?">>

\* The bytes of a sequence of characters.
RECURSIVE Bytes(_)
Bytes(chars) == IF chars = <<>> THEN <<>> ELSE Head(chars) \o Bytes(Tail(chars))

\* String::from_utf8_lossy(&buf[..n]): the characters of the bytes of one
\* read; a lead byte without its continuation, and a continuation without its
\* lead byte, each become the replacement character.
RECURSIVE from_utf8_lossy(_)
from_utf8_lossy(b) ==
    IF b = <<>> THEN <<>>
    ELSE IF b[1] = "a" THEN <<(<<"a">>)>> \o from_utf8_lossy(Tail(b))
    ELSE IF b[1] = "L" /\ Len(b) >= 2 /\ b[2] = "C"
         THEN <<(<<"L", "C">>)>> \o from_utf8_lossy(Tail(Tail(b)))
    ELSE <<Replacement>> \o from_utf8_lossy(Tail(b))

\* What the byte-level steps leave alone.
session == <<NEXT_TERMINAL_ID, terminals, lock, pc, fr, sess, hist, dir, ev>>

\* The child writes a character to the slave side.
StreamWrite(c) ==
    /\ Len(Bytes(stream.produced)) + Len(c) <= MaxBytes
    /\ stream' = [stream EXCEPT !.produced = Append(@, c), !.unread = @ \o c]
    /\ UNCHANGED session

\* Line 127, Ok(n): the read returns n of the bytes the pty holds, at most
\* READ_BUFFER_SIZE and not necessarily all of them.
StreamRead(n) ==
    /\ stream.buf = <<>>
    /\ n <= Len(stream.unread)
    /\ stream' = [stream EXCEPT !.buf = SubSeq(stream.unread, 1, n),
                                !.unread = SubSeq(@, n + 1, Len(@))]
    /\ UNCHANGED session

\* Lines 133-142: decode the bytes of the read, emit them as the data of a
\* terminal-output.
StreamEmit ==
    /\ stream.buf # <<>>
    /\ stream' = [stream EXCEPT !.text = @ \o from_utf8_lossy(stream.buf), !.buf = <<>>]
    /\ UNCHANGED session

(* --------------------------- specifications -------------------------- *)
(* --------------------------- read_directory --------------------------- *)

\* File names as sequences of character codes.
DotGit == <<46, 103, 105, 116>>
CargoToml == <<67, 97, 114, 103, 111, 46, 116, 111, 109, 108>>
SrcName == <<115, 114, 99>>
ZedName == <<90, 101, 100>>
ApiName == <<97, 112, 105>>
TmpName == <<84, 109, 112>>

\* What the file system holds for an entry: its name, whether it is a
\* directory, its length, the Windows hidden attribute, and whether its
\* metadata can be read.
DirEntry(name, is_dir, len, attr_hidden, readable) ==
    [name |-> name, is_dir |-> is_dir, len |-> len,
     attr_hidden |-> attr_hidden, readable |-> readable]

\* The entries a directory may hold.
Pool ==
    {DirEntry(DotGit, TRUE, 7, FALSE, TRUE),
     DirEntry(CargoToml, FALSE, 120, FALSE, TRUE),
     DirEntry(SrcName, TRUE, 9, FALSE, TRUE),
     DirEntry(ZedName, TRUE, 5, TRUE, TRUE),
     DirEntry(ApiName, FALSE, 3, FALSE, TRUE),
     DirEntry(TmpName, FALSE, 1, FALSE, FALSE)}

\* The directories read: fs::read_dir yields the entries in any order.
Listings ==
    {l \in UNION {[1..k -> Pool] : k \in 0..MaxEntries} :
        \A i, j \in DOMAIN l : i # j => l[i] # l[j]}

\* Lines 77-99, built for Windows: a leading dot, or the hidden attribute.
is_hidden_file(e) == e.name[1] = 46 \/ e.attr_hidden

\* Lines 42-54: the FileEntry pushed for a readable entry.
FileEntry(e) ==
    [name |-> e.name, is_dir |-> e.is_dir, is_hidden |-> is_hidden_file(e),
     size |-> IF e.is_dir THEN 0 ELSE e.len]

\* Mutant: the names are compared as they are.
to_lowercase_Same(name) == name
\* str::to_lowercase on the names of the pool (ASCII).
to_lowercase(name) ==
    [i \in DOMAIN name |-> IF name[i] \in 65..90 THEN name[i] + 32 ELSE name[i]]

\* Ord::cmp of two strings: by the first position where they differ, a proper
\* prefix being less.
RECURSIVE StrCmp(_, _)
StrCmp(a, b) ==
    IF a = <<>> /\ b = <<>> THEN "Equal"
    ELSE IF a = <<>> THEN "Less"
    ELSE IF b = <<>> THEN "Greater"
    ELSE IF a[1] < b[1] THEN "Less"
    ELSE IF a[1] > b[1] THEN "Greater"
    ELSE StrCmp(Tail(a), Tail(b))

\* Lines 58-64: the comparator given to sort_by.
Compare(a, b) ==
    IF a.is_dir /\ ~b.is_dir THEN "Less"
    ELSE IF ~a.is_dir /\ b.is_dir THEN "Greater"
    ELSE StrCmp(to_lowercase(a.name), to_lowercase(b.name))

\* A sorted sequence with e put behind the entries that are not greater.
InsertSorted(sorted, e) ==
    LET before == {i \in DOMAIN sorted : Compare(sorted[i], e) # "Greater"}
        n == Cardinality(before)
    IN SubSeq(sorted, 1, n) \o <<e>> \o SubSeq(sorted, n + 1, Len(sorted))

\* Vec::sort_by: a stable sort by the comparator.
RECURSIVE sort_by(_)
sort_by(entries) ==
    IF entries = <<>> THEN <<>>
    ELSE InsertSorted(sort_by(SubSeq(entries, 1, Len(entries) - 1)),
                      entries[Len(entries)])

\* Lines 31-55: the entries pushed, those with unreadable metadata skipped.
RECURSIVE Collected(_)
Collected(l) ==
    IF l = <<>> THEN <<>>
    ELSE (IF Head(l).readable THEN <<FileEntry(Head(l))>> ELSE <<>>) \o Collected(Tail(l))

\* Lines 15-67: read_directory on a path that is missing, not a directory, a
\* directory that cannot be read, or a directory holding the listing l.
read_directory(kind, l) ==
    /\ dir' = IF kind = "dir"
              THEN [read |-> l, result |-> sort_by(Collected(l))]
              ELSE [read |-> <<>>, result |-> <<kind>>]
    /\ UNCHANGED <<NEXT_TERMINAL_ID, terminals, lock, pc, fr, sess, hist, stream, ev>>
Operation(t) ==
    \/ \E a \in CreateArgs : SpawnLoad(t, a[1], a[2])
    \/ SpawnOpen(t)
    \/ SpawnAlloc(t)
    \/ SpawnInsert(t)
    \/ SpawnReader(t)
    \/ \E id \in IdArgs : WriteLookup(t, id)
    \/ WriteFlush(t)
    \/ \E id \in IdArgs, size \in SizeArgs : Resize(t, id, size)
    \/ \E id \in IdArgs : Close(t, id)
    \/ List(t)
    \/ \E id \in IdArgs, cwd \in NewCwds : UpdateCwd(t, id, cwd)

ReaderStep(s) == ReadData(s) \/ ReadEof(s) \/ EmitOutput(s) \/ EmitClosed(s)

Background ==
    \E s \in Slots :
        \/ ReaderStep(s)
        \/ ReadErr(s)
        \/ ChildOutput(s)
        \/ ChildConsume(s)
        \/ ChildExit(s)

\* The scheduling of the application: Manager operations are issued one after
\* another by one control thread, reader threads and children run beside it.
Next == Operation(1) \/ Background

Spec == Init /\ [][Next]_vars

\* Sessions created, closed and listed from several threads at once; readers
\* run to their end once their stream has ended.
Creation(t) ==
    \/ \E a \in CreateArgs : SpawnLoad(t, a[1], a[2])
    \/ SpawnOpen(t)
    \/ SpawnAlloc(t)
    \/ SpawnInsert(t)
    \/ SpawnReader(t)
    \/ \E id \in IdArgs : Close(t, id)
    \/ List(t)

NextConc ==
    \/ \E t \in Threads : Creation(t)
    \/ \E s \in Slots : ReadEof(s) \/ EmitClosed(s)

SpecConc == Init /\ [][NextConc]_vars

\* Writes, resizes and closes issued from several threads at once, on sessions
\* one of the threads creates.
Access(t) ==
    \/ \E id \in IdArgs : WriteLookup(t, id)
    \/ WriteFlush(t)
    \/ \E id \in IdArgs, size \in SizeArgs : Resize(t, id, size)
    \/ \E id \in IdArgs : Close(t, id)

NextLock ==
    \/ \E t \in Threads : Access(t)
    \/ \E a \in CreateArgs : SpawnLoad(1, a[1], a[2])
    \/ SpawnOpen(1)
    \/ SpawnAlloc(1)
    \/ SpawnInsert(1)
    \/ SpawnReader(1)
    \/ \E s \in Slots : ChildConsume(s) \/ ReadEof(s) \/ EmitClosed(s)

SpecLock == Init /\ [][NextLock]_vars

\* Reader threads are scheduled: a reader whose read can return, or that has
\* a notification to emit, eventually does so.
FairSpec == Spec /\ \A s \in Slots : WF_vars(ReaderStep(s))

\* One session's reader, followed byte by byte: the child writes valid UTF-8,
\* the reader reads and emits.
NextStream ==
    \/ \E c \in Chars : StreamWrite(c)
    \/ \E n \in 1..READ_BUFFER_SIZE : StreamRead(n)
    \/ StreamEmit

SpecStream == Init /\ [][NextStream]_vars

\* The directory listing, called on any path.
NextDir ==
    \/ \E l \in Listings : read_directory("dir", l)
    \/ \E kind \in {"does not exist", "is not a directory", "Failed to read directory"} :
           read_directory(kind, <<>>)

SpecDir == Init /\ [][NextDir]_vars

(* ------------------------------ claims ------------------------------- *)

\* The step just taken returned Ok(info) from createSession.
CreateReturned == ev'.kind = "ret" /\ ev'.op = "create" /\ ev'.res = "Ok"

\* C1 as stated: with calls issued one after another, the first id a
\* successful createSession returns is 1 and every later one is larger than
\* the one returned before it.
C1_IdsStartAtOne ==
    [][CreateReturned =>
          IF lastRet = 0 THEN ev'.id = 1 ELSE ev'.id > lastRet]_vars

\* C1 amended: with calls issued one after another, every id a successful
\* createSession returns is at least 1, larger than every id returned before
\* (so none is returned twice, closed or not), and equal to the number of ids
\* allocated so far: the first is 1 unless earlier calls failed after their
\* id was allocated.
C1_IdsIncrease ==
    [][CreateReturned =>
          /\ ev'.id >= 1
          /\ ev'.id > lastRet
          /\ ev'.id = Cardinality(issued)]_vars

\* Two sessions were created and the first was closed before the second.
C1_Witness ==
    /\ ev.kind = "ret" /\ ev.op = "create" /\ ev.res = "Ok"
    /\ ev.id = 2
    /\ 1 \in closeOk

\* C2: under concurrent createSession calls the counter never moves to a
\* smaller value and every fetch_add hands out an id not handed out before.
C2_NeverWraps ==
    [][/\ NEXT_TERMINAL_ID' >= NEXT_TERMINAL_ID
       /\ NEXT_TERMINAL_ID' # NEXT_TERMINAL_ID => issued' # issued]_vars

\* The operation the step just taken returned from addressed a closed id.
ReturnedFor(ids) ==
    /\ ev'.kind = "ret"
    /\ ev'.op \in {"write", "resize", "update_cwd", "close"}
    /\ ev'.id \in ids

\* C3: once closeSession(id) has returned Ok, every later write, resize,
\* updateCwd and close of that id returns not-found and leaves the registry
\* as it was.
C3_ClosedIsNotFound ==
    [][ReturnedFor(closeOk) => ev'.res = "NotFound" /\ terminals' = terminals]_vars

\* A write to a closed id was refused while another session is registered.
C3_Witness ==
    /\ ev = Ret("write", 1, "NotFound")
    /\ 1 \in closeOk
    /\ Registered = {2}

\* Ids createSession returned and closeSession has not removed since.
Created == {i \in Ids : retInfo[i] # NoInfo}

\* No createSession call is in progress.
NoCreateInFlight == \A t \in Threads : pc[t] \notin {"open", "alloc", "insert", "spawn"}

\* C4: when createSession calls running concurrently have all succeeded and
\* returned, and nothing was closed, the registry holds exactly one entry per
\* call: as many entries as calls, under the ids the calls returned, each with
\* the metadata its call returned.
C4_NoLostRegistration ==
    (closeOk = {} /\ NoCreateInFlight /\ issued = Created) =>
        /\ Cardinality(Registered) = nCreated
        /\ Registered = Created
        /\ \A i \in Created : terminals[i].info = retInfo[i]

\* Two overlapping calls have both returned: the call that opened its pty
\* second was the first to be given its id.
C4_Witness ==
    /\ closeOk = {} /\ NoCreateInFlight /\ issued = Created
    /\ nCreated = 2
    /\ Registered = {1, 2}
    /\ terminals[1].pty = 2

\* The step just taken emitted the named notification.
Emitted(name) == ev'.kind = "emit" /\ ev'.name = name

\* The reader thread bound to the id is running.
ReaderRunning(id) ==
    \E s \in Slots : sess[s].rid = id /\ sess[s].rpc \in {"read", "output", "closed"}

\* Every closed session whose reader has ended, and every reader that has
\* ended, has sent its terminal-closed.
EndedReadersNotified ==
    /\ \A s \in Slots : sess[s].rpc = "done" => sess[s].rid \in closedSent
    /\ \A i \in closeOk : ~ReaderRunning(i) => i \in closedSent

\* C5: terminal-closed is emitted once per session: never a second time for
\* an id, and it has been emitted when the reader has ended, however the
\* stream ended (child exit, read error, closeSession or several of them).
C5_ClosedOnce ==
    [][/\ Emitted("terminal-closed") => ev'.id \notin closedSent
       /\ EndedReadersNotified']_vars

\* The stream ended on its own (child exit or read error), the reader sent
\* terminal-closed and ended, and the session was closed explicitly afterwards.
C5_Witness ==
    /\ ev = Ret("close", 1, "Ok")
    /\ 1 \in closedSent
    /\ ~ReaderRunning(1)

\* C6: after closeSession(id) has returned Ok no terminal-output is emitted
\* for the id.
C6_NoOutputAfterClose ==
    [][Emitted("terminal-output") => ev'.id \notin closeOk]_vars

\* C7: a terminal-closed for an id is never followed by a terminal-output for
\* the same id.
C7_NoOutputAfterClosed ==
    [][Emitted("terminal-output") => ev'.id \notin closedSent]_vars

\* A reader that had forwarded output has sent terminal-closed.
C7_Witness ==
    /\ ev = Emit("terminal-closed", 1, 0)
    /\ \E s \in Slots : sess[s].rid = 1 /\ sess[s].produced = 1 /\ sess[s].out = <<>>

\* Closed ids whose reader has not yet sent terminal-closed and ended.
PendingClosed == {i \in closeOk : i \notin closedSent \/ ReaderRunning(i)}

Listed == ev.kind = "ret" /\ ev.op = "list"

\* C9 as stated: every listSessions result holds exactly one entry per created
\* and not yet closed session, equal in all fields to the metadata that
\* createSession returned.
C9_ListEqualsReturned ==
    Listed => \A i \in Created : {e \in ev.infos : e.id = i} = {retInfo[i]}

\* The metadata expected for a session: what createSession returned, with the
\* cwd of the latest successful updateSessionCwd, if any.
Expected(i) ==
    [retInfo[i] EXCEPT !.cwd = IF cwdSet[i] = "" THEN @ ELSE cwdSet[i]]

\* C9 amended: every listSessions result holds exactly one entry per created
\* and not yet closed session; its id, name and created_at are those that
\* createSession returned, its cwd is the returned one until a successful
\* updateSessionCwd, and then the cwd of the latest such update.
C9_ListMatchesCreated ==
    Listed => \A i \in Created : {e \in ev.infos : e.id = i} = {Expected(i)}

\* A listing of two sessions, one of which had its cwd updated and whose
\* reader has ended.
C9_Witness ==
    /\ Listed
    /\ Created = {1, 2}
    /\ cwdSet[1] = "y"
    /\ 1 \in closedSent

\* C10: createSession called with the counter at its maximum enters no
\* creation and returns the id-overflow error, leaving the counter, the
\* registry, the ptys, children and readers as they were.
C10_OverflowNoEffect ==
    [][(NEXT_TERMINAL_ID >= MAX_TERMINAL_ID /\ pc[1] = "idle") =>
          /\ pc'[1] # "open"
          /\ (ev'.kind = "ret" /\ ev'.op = "create") =>
                /\ ev'.res = "IdOverflow"
                /\ UNCHANGED <<NEXT_TERMINAL_ID, terminals, sess, pc, fr, lock,
                               issued, nCreated>>]_vars

\* The overflow error was returned with a session registered.
C10_Witness ==
    /\ ev = Ret("create", 0, "IdOverflow")
    /\ NEXT_TERMINAL_ID = MAX_TERMINAL_ID
    /\ Registered # {}

\* The step just taken returned Ok from updateSessionCwd of the id.
CwdUpdated(i) == ev' = Ret("update_cwd", i, "Ok")

\* C11: a successful updateSessionCwd(id, c) sets the cwd of session id to c
\* and leaves its id, name, created_at and device, every other entry and the
\* set of registered ids as they were; and the metadata of a session that
\* stays registered changes in no other step.
C11_CwdFrame ==
    [][/\ \A i \in Ids : CwdUpdated(i) =>
              /\ terminals'[i] = [terminals[i] EXCEPT !.info.cwd = cwdSet'[i]]
              /\ cwdSet'[i] \in NewCwds
              /\ \A j \in Ids \ {i} : terminals'[j] = terminals[j]
              /\ Registered' = Registered
       /\ \A i \in Registered \cap Registered' :
              terminals'[i].info # terminals[i].info => CwdUpdated(i)]_vars

\* The cwd of a named session was updated while another session is registered.
C11_Witness ==
    /\ ev = Ret("update_cwd", 1, "Ok")
    /\ Registered = {1, 2}
    /\ terminals[1].info = TerminalInfo(1, "n", "y", "t1")
    /\ terminals[2].info.cwd = "home"

\* The step just taken was taken by a running reader thread.
ReaderMoved ==
    \E s \in Slots : sess[s].rpc \in {"read", "output", "closed"} /\ sess'[s].rpc # sess[s].rpc

\* C12: no step of a reader thread, and no notification, changes the
\* registry: a session whose reader has sent terminal-closed stays registered,
\* and an entry leaves the registry only in a step that returns Ok from
\* closeSession of its id.
C12_ReaderKeepsRegistry ==
    [][/\ (ReaderMoved \/ ev'.kind = "emit") => terminals' = terminals
       /\ \A i \in Registered \ Registered' : ev' = Ret("close", i, "Ok")]_vars

\* The child of a session exited, its reader sent terminal-closed and ended,
\* and listSessions still returns the session.
C12_Witness ==
    /\ ev.kind = "ret" /\ ev.op = "list"
    /\ 1 \in closedSent /\ 1 \notin closeOk
    /\ \E s \in Slots : sess[s].rid = 1 /\ sess[s].rpc = "done" /\ sess[s].child = "exited"
    /\ \E e \in ev.infos : e.id = 1

\* C13: the data of a session's terminal-output notifications, concatenated in
\* the order emitted, are the child's output: once the reader has read and
\* emitted everything the child wrote, the emitted text is the sequence of
\* characters the child wrote, nothing reordered, duplicated or dropped.
C13_OutputIsChildStream ==
    (stream.unread = <<>> /\ stream.buf = <<>>) => stream.text = stream.produced

\* The names of a result, in its order.
Names(result) == [i \in DOMAIN result |-> result[i].name]

\* The directory read holds .git (directory), Cargo.toml (file) and src
\* (directory), in whatever order the file system yields them.
ExampleRead ==
    /\ Len(dir.read) = 3
    /\ {dir.read[i] : i \in 1..3} =
           {DirEntry(DotGit, TRUE, 7, FALSE, TRUE),
            DirEntry(CargoToml, FALSE, 120, FALSE, TRUE),
            DirEntry(SrcName, TRUE, 9, FALSE, TRUE)}

\* C14 as stated: for a directory holding .git (directory), Cargo.toml (file)
\* and src (directory), readDirectory returns src, .git, Cargo.toml in this
\* order, with .git marked hidden.
C14_ExampleOrder ==
    ExampleRead =>
        /\ Names(dir.result) = <<SrcName, DotGit, CargoToml>>
        /\ dir.result[2].is_hidden

\* A character code with an upper-case letter folded to lower case.
Folded(c) == IF c \in 65..90 THEN c + 32 ELSE c

\* Name a does not come after name b when case is ignored.
NotAfter(a, b) ==
    \E k \in 1..(Len(a) + 1) :
        /\ \A i \in 1..(k - 1) : i <= Len(b) /\ Folded(a[i]) = Folded(b[i])
        /\ \/ k = Len(a) + 1
           \/ k <= Len(b) /\ Folded(a[k]) < Folded(b[k])

\* C14 amended: readDirectory returns one entry per readable entry of the
\* directory, directories before files and, among directories and among
\* files, in case-insensitive name order; for a directory holding .git
\* (directory), Cargo.toml (file) and src (directory) the order is .git, src,
\* Cargo.toml, with .git marked hidden and Cargo.toml of size 120.
C14_DirsFirstByName ==
    /\ (dir.read # <<>>) =>
          /\ {dir.result[i] : i \in DOMAIN dir.result} =
                 {FileEntry(e) : e \in {dir.read[i] : i \in {j \in DOMAIN dir.read : dir.read[j].readable}}}
          /\ \A i, j \in DOMAIN dir.result : i < j =>
                 /\ dir.result[i] # dir.result[j]
                 /\ dir.result[j].is_dir => dir.result[i].is_dir
                 /\ dir.result[i].is_dir = dir.result[j].is_dir =>
                        NotAfter(dir.result[i].name, dir.result[j].name)
    /\ ExampleRead =>
          /\ Names(dir.result) = <<DotGit, SrcName, CargoToml>>
          /\ dir.result[1].is_hidden /\ ~dir.result[2].is_hidden
          /\ dir.result[3].size = 120 /\ dir.result[1].size = 0

\* The example directory, read in the order src, Cargo.toml, .git.
C14_Witness ==
    /\ ExampleRead
    /\ Names(dir.read) = <<SrcName, CargoToml, DotGit>>
    /\ Len(dir.result) = 3

\* The step just taken returned from a write or a resize that found its session.
DeviceUsed ==
    ev'.kind = "ret" /\ ev'.op \in {"write", "resize"} /\ ev'.res # "NotFound"

\* C15: with writes, resizes and closes running concurrently, a write or
\* resize that does not return not-found acted while its session was
\* registered, on the device of that session, which was open; and a write in
\* progress holds the lock, its session is registered and the device it
\* writes to is that session's.
C15_DeviceUnderLock ==
    [][/\ DeviceUsed =>
              /\ terminals[ev'.id] # NoTerminal
              /\ sess[terminals[ev'.id].pty].pty = "open"
              /\ ev'.res = "Ok" => ev'.dev = terminals[ev'.id].pty
       /\ \A t \in Threads : pc'[t] = "write" =>
              /\ lock' = t
              /\ terminals'[fr'[t].id] # NoTerminal
              /\ terminals'[fr'[t].id].pty = fr'[t].slot]_vars

\* A thread is in the middle of a write to session 1, waiting for the pty to
\* take the input, while another thread is free to call closeSession(1).
C15_Witness ==
    /\ pc[2] = "write" /\ fr[2].id = 1 /\ lock = 2
    /\ sess[fr[2].slot].inq = InCap
    /\ pc[3] = "idle"
    /\ Registered = {1, 2}

\* The reader of the slot has a step to take: a notification to emit, or a
\* read that the device can answer with data or end-of-stream.
ReaderReady(s) ==
    \/ sess[s].rpc \in {"output", "closed"}
    \/ sess[s].rpc = "read" /\ (sess[s].out # <<>> \/ StreamEnded(s))

\* C16: a reader thread never acquires or waits for the registry lock: its
\* steps leave the lock as it is, and whoever holds the lock, a reader that
\* has a step to take (read, emit output, emit closed) can take it.
C16_ReaderIgnoresLock ==
    [][/\ ReaderMoved => lock' = lock
       /\ \A s \in Slots : ReaderReady(s) => ENABLED ReaderStep(s)]_vars

\* A write holds the lock, waiting for the pty, while the reader of the same
\* session has output to read.
C16_Witness ==
    /\ lock = 1 /\ pc[1] = "write"
    /\ sess[fr[1].slot].inq = InCap
    /\ sess[fr[1].slot].rpc = "read" /\ sess[fr[1].slot].out # <<>>

\* C17: an operation that holds the registry lock can always go on to release
\* it by steps of its own: it never waits, with the lock held, for something
\* another party has to do, so the operations waiting for the lock get it.
C17_HolderNotBlocked ==
    \A t \in Threads : lock = t => ENABLED WriteFlush(t)

\* The step just taken was a read of the slot's reader failing with an I/O
\* error: it leaves the loop although the stream has not ended.
ReadFailed(s) ==
    sess[s].rpc = "read" /\ ~StreamEnded(s) /\ sess'[s].rpc = "closed"

\* C18: an I/O error in the reader of one session, and the terminal-closed it
\* leads to, leave the registry (the session's own entry included), the id
\* counter and the lock as they were and touch no other session's device,
\* child or reader; the error step itself emits nothing.
C18_ErrorIsolated ==
    [][/\ \A s \in Slots : ReadFailed(s) =>
              /\ terminals' = terminals
              /\ NEXT_TERMINAL_ID' = NEXT_TERMINAL_ID
              /\ lock' = lock
              /\ ev'.kind # "emit"
              /\ \A r \in Slots \ {s} : sess'[r] = sess[r]
       /\ Emitted("terminal-closed") =>
              /\ terminals' = terminals
              /\ NEXT_TERMINAL_ID' = NEXT_TERMINAL_ID
              /\ \A r \in Slots : sess[r].rid # ev'.id => sess'[r] = sess[r]]_vars

\* The reader of session 1 failed while its child was running and sent
\* terminal-closed; session 1 is still registered, and the reader of session 2
\* has just forwarded output.
C18_Witness ==
    /\ ev = Emit("terminal-output", 2, 1)
    /\ 1 \in closedSent /\ Registered = {1, 2}
    /\ \E s \in Slots : /\ sess[s].rid = 1 /\ sess[s].rpc = "done"
                        /\ sess[s].child = "running" /\ sess[s].pty = "open"

\* The step just taken started the reader thread of the slot.
ReaderStarted(s) ==
    sess[s].rpc \notin {"read", "output", "closed"} /\ sess'[s].rpc = "read"

\* C19: a createSession that succeeds adds one registry entry, under a new
\* id, and starts one reader thread, bound to the returned id, in the step
\* that returns, when the entry is already in the registry; no reader had been
\* started for that id before; and every notification comes from a started
\* reader, so it is preceded by the registration of its id.
C19_ReaderAfterInsert ==
    [][/\ \A s \in Slots : ReaderStarted(s) =>
              /\ CreateReturned /\ ev'.id = sess'[s].rid
              /\ terminals[ev'.id] # NoTerminal /\ terminals[ev'.id].pty = s
              /\ terminals[ev'.id].info = ev'.info
              /\ terminals' = terminals
              /\ ev'.id > lastRet
              /\ \A r \in Slots \ {s} : ~ReaderStarted(r) /\ ~ReaderRunning(ev'.id)
       /\ CreateReturned => \E s \in Slots : ReaderStarted(s)
       /\ (pc[1] = "insert" /\ pc'[1] = "spawn") =>
              /\ fr[1].id \notin Registered
              /\ Registered' = Registered \cup {fr[1].id}
              /\ \A i \in Registered : terminals'[i] = terminals[i]
       /\ Registered' \ Registered # {} => pc[1] = "insert"
       /\ ev'.kind = "emit" =>
              \E s \in Slots : /\ sess[s].rid = ev'.id
                               /\ sess[s].rpc \in {"output", "closed"}]_vars

\* The second session has just been created: its reader is started, its entry
\* is registered on the reader's device and its child has already written.
C19_Witness ==
    /\ ev.kind = "ret" /\ ev.op = "create" /\ ev.res = "Ok" /\ ev.id = 2
    /\ \E s \in Slots : /\ sess[s].rid = 2 /\ sess[s].rpc = "read"
                        /\ terminals[2].pty = s /\ sess[s].out # <<>>
    /\ 1 \in Registered

\* The step just taken returned the failure of a createSession that could not
\* get its writer or its reader handle.
FailedAfterAlloc ==
    ev'.kind = "ret" /\ ev'.op = "create" /\ ev'.res \in {"WriterFailed", "ReaderFailed"}

\* Ids that were allocated and belong to no session, present or past, nor to
\* a creation in progress.
Burnt ==
    {i \in issued : /\ i \notin Registered /\ i \notin closeOk
                    /\ \A t \in Threads : ~(pc[t] \in {"insert", "spawn"} /\ fr[t].id = i)}

\* C20: a createSession that fails after its id was allocated leaves the
\* registry as it was, starts no reader and leaves none bound to the id, and
\* has advanced the counter by one; the id stays unused for ever: it is never
\* returned and never registered later, and each id registered is larger than
\* every id registered or allocated before.
C20_FailedCreateBurnsId ==
    [][/\ FailedAfterAlloc =>
              /\ terminals' = terminals
              /\ NEXT_TERMINAL_ID' = NEXT_TERMINAL_ID + 1
              /\ NEXT_TERMINAL_ID \in Burnt'
              /\ \A s \in Slots : ~ReaderStarted(s) /\ ~(sess'[s].rpc # "none" /\ sess'[s].rid = NEXT_TERMINAL_ID)
       /\ Burnt \subseteq Burnt'
       /\ CreateReturned => ev'.id \notin Burnt
       /\ \A i \in Registered' \ Registered :
              \A j \in Registered \cup Burnt \cup closeOk : j < i]_vars

\* The first createSession failed after its id was allocated; the second
\* succeeded and has just returned id 2.
C20_Witness ==
    /\ ev.kind = "ret" /\ ev.op = "create" /\ ev.res = "Ok" /\ ev.id = 2
    /\ Burnt = {1}
    /\ Registered = {2}
    /\ NEXT_TERMINAL_ID = 3

====
